---- MODULE Spec2Model ----
(***************************************************************************)
(* Storage-slot discovery (token/mapbased/mapbased.go) and the proof       *)
(* orchestrator (cmd/ethproof/ethproof.go) of erc20-storage-proof.         *)
(*                                                                         *)
(* One behaviour is one run of the ethproof command against a chain whose  *)
(* head may advance between any two calls of the run.                      *)
(***************************************************************************)
EXTENDS Integers, Sequences, FiniteSets, TLC

(* ------------------------------------------------------------------ *)
(* Bounds of the model                                                  *)
(* ------------------------------------------------------------------ *)
MaxHead == 2          \* the chain head advances from block 1 up to this block
MaxHeight == 2        \* the -height flag ranges over 0..MaxHeight
MaxDecimals == 2      \* the token's decimals range over 0..MaxDecimals

(* ------------------------------------------------------------------ *)
(* Program constants                                                    *)
(* ------------------------------------------------------------------ *)
DiscoveryIterations == 30

ErrSlotNotFound == "storage slot not found"

\* error values: nil, the sentinel, and errors of the chain client
NoErr == "nil"
ErrTransport == "transport error"

(* ------------------------------------------------------------------ *)
(* Values                                                               *)
(* ------------------------------------------------------------------ *)
\* A storage word the value decoder cannot parse.
BadWord == 0 - 1
\* No word: the read failed, or nothing was read yet.
NoWord == 0 - 2
\* Raw (unscaled) token amounts held by the chain.
RawAmounts == {0, 12, 500}
\* What a storage read or a proof can carry as its value.
Words == RawAmounts \cup {BadWord}
\* Mapping positions at which the token may keep its balances (35 is
\* outside the searched range).
TruePositions == {3, 35}

\* A *big.Float: num / 10^exp.  NilFloat is the nil pointer.
NilFloat == [num |-> 0 - 1, exp |-> 0]
NewFloat0 == [num |-> 0, exp |-> 0]

RECURSIVE Pow10(_)
Pow10(n) == IF n = 0 THEN 1 ELSE 10 * Pow10(n - 1)

\* (*big.Float).Uint64(): the value truncated towards zero.
Uint64(f) == f.num \div Pow10(f.exp)

\* Two floats denote the same number.
SameNumber(a, b) == a.num * Pow10(b.exp) = b.num * Pow10(a.exp)

\* helpers.ValueToBalance(hex, decimals): the word scaled by 10^decimals,
\* or an error when the word does not parse.
ValueToBalance(word, decimals) ==
    IF word = BadWord
    THEN [amount |-> NilFloat, err |-> "amount cannot be parsed"]
    ELSE [amount |-> [num |-> word, exp |-> decimals], err |-> NoErr]

\* erc20.Balance: the holder's balance scaled by the token's decimals.
BalanceToFloat(raw, decimals) == [num |-> raw, exp |-> decimals]

\* helpers.GetMapSlot(holder, position): the storage key of holder's entry
\* of the mapping declared at position.  The hash is modelled as injective.
Holder == "holder"
GetMapSlot(holder, position) == <<holder, position>>

VARIABLES
    \* command line
    contractType,   \* -type
    height,         \* -height
    \* the chain
    chainDecimals,  \* decimals() of the token
    truePos,        \* position of the balances mapping in the contract
    filler,         \* the word every other mapping position yields for holder
    head,           \* number of the latest block
    chainBal,       \* holder's raw balance at the latest block
    \* main()
    pc, outcome, tokenData, balance, ttype, slot, mamount, block, sproof, warned,
    \* Mapbased.DiscoverSlot
    dpc, dTokenData, ubalance, amount, index, i, ret,
    \* history of the run
    steps, failed, nreads, lastPos, lastWord, readBlocks, dsHead, firstMatch,
    fetches         \* how many times decimals and the balance were fetched

vars == <<contractType, height, chainDecimals, truePos, filler, head, chainBal,
          pc, outcome, tokenData, balance, ttype, slot, mamount, block, sproof, warned,
          dpc, dTokenData, ubalance, amount, index, i, ret,
          steps, failed, nreads, lastPos, lastWord, readBlocks, dsHead, firstMatch, fetches>>

envVars == <<contractType, height, chainDecimals, truePos, filler>>
chainVars == <<head, chainBal>>
mainVars == <<pc, outcome, tokenData, balance, ttype, slot, mamount, block, sproof, warned>>
dsVars == <<dpc, dTokenData, ubalance, amount, index, i, ret>>
histVars == <<steps, failed, nreads, lastPos, lastWord, readBlocks, dsHead, firstMatch, fetches>>

\* The word stored at a key of the token contract, at the latest block.
StorageAt(key) == IF key[2] = truePos THEN chainBal ELSE filler

NoProof == [value |-> BadWord, pv |-> FALSE, minimeOk |-> FALSE, block |-> 0, key |-> <<>>]
NoRet == [position |-> 0 - 2, amount |-> NilFloat, err |-> NoErr]

Init ==
    /\ contractType \in {"mapbased", "minime", "other"}
    /\ height \in 0..MaxHeight
    /\ chainDecimals \in 0..MaxDecimals
    /\ truePos \in TruePositions
    /\ filler \in Words
    /\ head = 1
    /\ chainBal \in RawAmounts
    /\ pc = "metadata"
    /\ outcome = "running"
    /\ tokenData = 0 - 1
    /\ balance = NilFloat
    /\ ttype = "none"
    /\ slot = 0 - 1
    /\ mamount = NilFloat
    /\ block = 0
    /\ sproof = NoProof
    /\ warned = FALSE
    /\ dpc = "idle"
    /\ dTokenData = 0 - 1
    /\ ubalance = 0
    /\ amount = NilFloat
    /\ index = 0 - 1
    /\ i = 0
    /\ ret = NoRet
    /\ steps = <<>>
    /\ failed = "none"
    /\ nreads = 0
    /\ lastPos = 0 - 1
    /\ lastWord = NoWord
    /\ readBlocks = {}
    /\ dsHead = 0
    /\ firstMatch = 0 - 1
    /\ fetches = [meta |-> 0, bal |-> 0]

\* log.Fatal at a step of main: the process exits.
Fatal(step) ==
    /\ outcome' = "fatal"
    /\ pc' = "exit"
    /\ failed' = step

\* The chain produces a block; the holder's balance may change in it.
NewBlock ==
    /\ outcome = "running"
    /\ head < MaxHead
    /\ head' = head + 1
    /\ chainBal' \in RawAmounts
    /\ UNCHANGED <<envVars, mainVars, dsVars, histVars>>

(* ------------------------------------------------------------------ *)
(* main(), cmd/ethproof/ethproof.go                                     *)
(* ------------------------------------------------------------------ *)

\* Mutation: the error is dropped and the run goes on.
ErrIsFatal_Dropped(err) == FALSE

\* if err != nil { log.Fatal(err) }
ErrIsFatal(err) == err # NoErr

\* if tokenData.Decimals < 1 { log.Fatal(...) }
DecimalsUnusable(decimals) == decimals < 1

\* Mutation: the zero-balance return is missing.
NoAmountForHolder_Missing(bal) == FALSE

\* if a, _ := balance.Uint64(); a == 0 { ...; return }
NoAmountForHolder(bal) == Uint64(bal) = 0

\* Step 1: ts.Init (its error is dropped), ts.GetTokenData.
FetchMetadata ==
    /\ outcome = "running" /\ pc = "metadata"
    /\ steps' = Append(steps, "metadata")
    /\ \E err \in {NoErr, ErrTransport} :
         IF ErrIsFatal(err)
         THEN Fatal("metadata") /\ UNCHANGED tokenData
         ELSE /\ tokenData' = chainDecimals
              /\ IF DecimalsUnusable(chainDecimals)
                 THEN Fatal("metadata")
                 ELSE pc' = "balance" /\ UNCHANGED <<outcome, failed>>
    /\ fetches' = [fetches EXCEPT !.meta = @ + 1]
    /\ UNCHANGED <<envVars, chainVars, dsVars, balance, ttype, slot, mamount, block,
                   sproof, warned, nreads, lastPos, lastWord, readBlocks, dsHead, firstMatch>>

\* Step 2: ts.Balance(holderAddr), read at the latest block, and the
\* zero-balance return.
FetchBalance ==
    /\ outcome = "running" /\ pc = "balance"
    /\ steps' = Append(steps, "balance")
    /\ \E err \in {NoErr, ErrTransport} :
         IF ErrIsFatal(err)
         THEN Fatal("balance") /\ UNCHANGED <<balance, readBlocks>>
         ELSE /\ balance' = BalanceToFloat(chainBal, tokenData)
              /\ readBlocks' = readBlocks \cup {head}
              /\ IF NoAmountForHolder(balance')
                 THEN outcome' = "trivial" /\ pc' = "exit" /\ UNCHANGED failed
                 ELSE pc' = "newtoken" /\ UNCHANGED <<outcome, failed>>
    /\ fetches' = [fetches EXCEPT !.bal = @ + 1]
    /\ UNCHANGED <<envVars, chainVars, dsVars, tokenData, ttype, slot, mamount, block,
                   sproof, warned, nreads, lastPos, lastWord, dsHead, firstMatch>>

\* switch *contractType
TokenType(name) ==
    CASE name = "mapbased" -> "mapbased"
      [] name = "minime" -> "minime"
      [] OTHER -> "unsupported"

\* The type switch and token.NewToken.
NewToken ==
    /\ outcome = "running" /\ pc = "newtoken"
    /\ steps' = Append(steps, "newtoken")
    /\ IF TokenType(contractType) = "unsupported"
       THEN Fatal("config") /\ UNCHANGED ttype
       ELSE /\ ttype' = TokenType(contractType)
            /\ \E err \in {NoErr, ErrTransport} :
                 IF ErrIsFatal(err)
                 THEN Fatal("newtoken")
                 ELSE pc' = "discover" /\ UNCHANGED <<outcome, failed>>
    /\ UNCHANGED <<envVars, chainVars, dsVars, tokenData, balance, slot, mamount, block,
                   sproof, warned, nreads, lastPos, lastWord, readBlocks, dsHead, firstMatch, fetches>>

(* ------------------------------------------------------------------ *)
(* Mapbased.DiscoverSlot, token/mapbased/mapbased.go                    *)
(* ------------------------------------------------------------------ *)

\* Mutation: the loop bound is off by one.
LoopCond_OffByOne(n) == n <= DiscoveryIterations

\* for i := 0; i < DiscoveryIterations; i++
LoopCond(n) == n < DiscoveryIterations

\* Mutation: a failed read is skipped like a decode failure.
OnReadError_Skip(idx, err) == [index |-> idx, exit |-> "continue", err |-> NoErr]

\* StorageAt failed: return index, nil, err
OnReadError(idx, err) == [index |-> idx, exit |-> "return", err |-> err]

\* Mutation: a decode failure is returned like a read error.
OnDecodeError_Abort(idx) == [index |-> idx, exit |-> "return", err |-> "amount cannot be parsed"]

\* ValueToBalance failed: continue
OnDecodeError(idx) == [index |-> idx, exit |-> "continue", err |-> NoErr]

\* Mutation: the break is missing, the search goes on after a match.
OnMatch_NoBreak(pos) == [index |-> pos, exit |-> "continue", err |-> NoErr]

\* a == ubalance: index = i; break
OnMatch(pos) == [index |-> pos, exit |-> "break", err |-> NoErr]

\* if a, _ := amount.Uint64(); a == ubalance
BalanceMatches(decoded, ubal) == Uint64(decoded) = ubal

\* One pass through the loop body for position pos, given what StorageAt
\* returned (word, readErr).
IterStep(pos, idx, readErr, word, decimals, ubal) ==
    IF readErr # NoErr
    THEN OnReadError(idx, readErr)
    ELSE LET r == ValueToBalance(word, decimals) IN
         IF r.err # NoErr
         THEN OnDecodeError(idx)
         ELSE IF BalanceMatches(r.amount, ubal)
              THEN OnMatch(pos)
              ELSE [index |-> idx, exit |-> "continue", err |-> NoErr]

\* Mutation: the exhausted search returns the amount variable with its error.
AfterLoop_KeepsAmount(idx, outerAmount) ==
    [position |-> idx, amount |-> outerAmount,
     err |-> IF idx = 0 - 1 THEN ErrSlotNotFound ELSE NoErr]

\* The statements after the loop.  The amount returned is the variable
\* declared before the loop: the loop body declares its own with :=.
AfterLoop(idx, outerAmount) ==
    IF idx = 0 - 1
    THEN [position |-> idx, amount |-> NilFloat, err |-> ErrSlotNotFound]
    ELSE [position |-> idx, amount |-> outerAmount, err |-> NoErr]

\* History: the word decodes to an amount whose integer part is ubal.
WordMatches(word, decimals, ubal) == word >= 0 /\ word \div Pow10(decimals) = ubal

\* m.erc20.GetTokenData()
DiscoverSlotTokenData ==
    /\ outcome = "running" /\ pc = "discover" /\ ttype = "mapbased" /\ dpc = "idle"
    /\ steps' = Append(steps, "discover")
    /\ \E err \in {NoErr, ErrTransport} :
         IF err # NoErr
         THEN /\ ret' = [position |-> 0 - 1, amount |-> NilFloat, err |-> "GetTokenData"]
              /\ dpc' = "returned"
              /\ UNCHANGED dTokenData
         ELSE /\ dTokenData' = chainDecimals
              /\ dpc' = "balance"
              /\ UNCHANGED ret
    /\ fetches' = [fetches EXCEPT !.meta = @ + 1]
    /\ UNCHANGED <<envVars, chainVars, mainVars, ubalance, amount, index, i,
                   failed, nreads, lastPos, lastWord, readBlocks, dsHead, firstMatch>>

\* m.erc20.Balance(holder), read at the latest block, and the
\* initialisation of the loop.
DiscoverSlotBalance ==
    /\ outcome = "running" /\ dpc = "balance"
    /\ \E err \in {NoErr, ErrTransport} :
         IF err # NoErr
         THEN /\ ret' = [position |-> 0 - 1, amount |-> NilFloat, err |-> "Balance"]
              /\ dpc' = "returned"
              /\ UNCHANGED <<ubalance, amount, index, i, readBlocks, dsHead>>
         ELSE /\ ubalance' = Uint64(BalanceToFloat(chainBal, dTokenData))
              /\ amount' = NewFloat0
              /\ index' = 0 - 1
              /\ i' = 0
              /\ readBlocks' = readBlocks \cup {head}
              /\ dsHead' = head
              /\ dpc' = "loop"
              /\ UNCHANGED ret
    /\ fetches' = [fetches EXCEPT !.bal = @ + 1]
    /\ UNCHANGED <<envVars, chainVars, mainVars, dTokenData,
                   steps, failed, nreads, lastPos, lastWord, firstMatch>>

\* One iteration of the loop: GetMapSlot, StorageAt (at the latest block),
\* ValueToBalance, the comparison; and, when the loop ends with it, the
\* statements after the loop.
DiscoverSlotIter ==
    /\ outcome = "running" /\ dpc = "loop" /\ LoopCond(i)
    /\ nreads' = nreads + 1
    /\ lastPos' = i
    /\ \E readErr \in {NoErr, ErrTransport} :
         LET word == StorageAt(GetMapSlot(Holder, i))
             r == IterStep(i, index, readErr, word, dTokenData, ubalance)
         IN /\ IF readErr = NoErr
               THEN /\ lastWord' = word
                    /\ readBlocks' = readBlocks \cup {head}
                    /\ firstMatch' = IF firstMatch < 0 /\ WordMatches(word, dTokenData, ubalance)
                                     THEN i ELSE firstMatch
               ELSE lastWord' = NoWord /\ UNCHANGED <<readBlocks, firstMatch>>
            /\ index' = r.index
            /\ CASE r.exit = "return" ->
                      /\ ret' = [position |-> r.index, amount |-> NilFloat, err |-> r.err]
                      /\ dpc' = "returned"
                      /\ UNCHANGED i
                 [] r.exit = "break" ->
                      /\ ret' = AfterLoop(r.index, amount)
                      /\ dpc' = "returned"
                      /\ UNCHANGED i
                 [] OTHER ->
                      /\ i' = i + 1
                      /\ IF LoopCond(i + 1)
                         THEN UNCHANGED <<ret, dpc>>
                         ELSE ret' = AfterLoop(r.index, amount) /\ dpc' = "returned"
    /\ UNCHANGED <<envVars, chainVars, mainVars, dTokenData, ubalance, amount,
                   steps, failed, dsHead, fetches>>

\* Positions the checkpoint-list kind may resolve.
MinimePositions == {0, 8}

\* DiscoverSlot of the checkpoint-list kind: it resolves a position by its own
\* strategy, or fails.  Its chain reads are not part of the model.
MinimeDiscoverSlot ==
    /\ outcome = "running" /\ pc = "discover" /\ ttype = "minime" /\ dpc = "idle"
    /\ steps' = Append(steps, "discover")
    /\ \E err \in {NoErr, ErrTransport, ErrSlotNotFound} :
         IF err # NoErr
         THEN ret' = [position |-> 0 - 1, amount |-> NilFloat, err |-> err]
         ELSE \E p \in MinimePositions :
                  ret' = [position |-> p,
                          amount |-> BalanceToFloat(chainBal, chainDecimals),
                          err |-> NoErr]
    /\ dpc' = "returned"
    /\ UNCHANGED <<envVars, chainVars, mainVars, dTokenData, ubalance, amount, index, i,
                   failed, nreads, lastPos, lastWord, readBlocks, dsHead, firstMatch, fetches>>

\* Step 3 ends: slot, amount, err := t.DiscoverSlot(...); fatal on err.
DiscoverReturn ==
    /\ outcome = "running" /\ pc = "discover" /\ dpc = "returned"
    /\ IF ErrIsFatal(ret.err)
       THEN Fatal("discover") /\ UNCHANGED <<slot, mamount>>
       ELSE /\ slot' = ret.position
            /\ mamount' = ret.amount
            /\ pc' = "block"
            /\ UNCHANGED <<outcome, failed>>
    /\ dpc' = "done"
    /\ UNCHANGED <<envVars, chainVars, tokenData, balance, ttype, block, sproof, warned,
                   dTokenData, ubalance, amount, index, i, ret,
                   steps, nreads, lastPos, lastWord, readBlocks, dsHead, firstMatch, fetches>>

(* ------------------------------------------------------------------ *)
(* main(), steps 4 to 7                                                 *)
(* ------------------------------------------------------------------ *)

\* Mutation: the -height flag is ignored, the latest block is always taken.
BlockNum_AlwaysLatest(h) == 0

\* var blockNum *big.Int; if *height > 0 { blockNum = height }.  0 is nil.
BlockNum(h) == IF h > 0 THEN h ELSE 0

\* The chain's answer to GetBlock(num): the latest block for nil, the block
\* of that number when it exists, else no block (0).
ChainGetBlock(num, latest) ==
    IF num = 0 THEN latest ELSE IF num <= latest THEN num ELSE 0

\* Step 4: ts.GetBlock(context.Background(), blockNum).
ResolveBlock ==
    /\ outcome = "running" /\ pc = "block"
    /\ steps' = Append(steps, "block")
    /\ \E err \in {NoErr, ErrTransport} :
         LET b == ChainGetBlock(BlockNum(height), head) IN
         IF ErrIsFatal(IF b = 0 THEN "not found" ELSE err)
         THEN Fatal("block") /\ UNCHANGED block
         ELSE block' = b /\ pc' = "proof" /\ UNCHANGED <<outcome, failed>>
    /\ UNCHANGED <<envVars, chainVars, dsVars, tokenData, balance, ttype, slot, mamount,
                   sproof, warned, nreads, lastPos, lastWord, readBlocks, dsHead, firstMatch, fetches>>

\* Step 5: t.GetProof(holderAddr, block.Number(), slot).  Mapbased.GetProof
\* fetches the block of that number again and asks for the proof of the key
\* GetMapSlot(holder, islot) at it.
GetProof ==
    /\ outcome = "running" /\ pc = "proof"
    /\ steps' = Append(steps, "proof")
    /\ \E err \in {NoErr, ErrTransport} :
         IF ErrIsFatal(err)
         THEN Fatal("proof") /\ UNCHANGED <<sproof, readBlocks>>
         ELSE /\ \E w \in Words, v \in BOOLEAN,
                    mv \in (IF ttype = "minime" THEN BOOLEAN ELSE {FALSE}) :
                   sproof' = [value |-> w, pv |-> v, minimeOk |-> mv,
                              block |-> ChainGetBlock(block, head),
                              key |-> GetMapSlot(Holder, slot)]
              /\ readBlocks' = readBlocks \cup {ChainGetBlock(block, head)}
              /\ pc' = "decode"
              /\ UNCHANGED <<outcome, failed>>
    /\ UNCHANGED <<envVars, chainVars, dsVars, tokenData, balance, ttype, slot, mamount,
                   block, warned, nreads, lastPos, lastWord, dsHead, firstMatch, fetches>>

\* minime.ParseMinimeValue: balance, fullBalance and block of the word, all
\* nil with an error when the word does not parse.
ParseMinimeValue(word, decimals) ==
    IF word = BadWord
    THEN [balance |-> NilFloat, fullBalance |-> 0 - 1, err |-> "cannot parse"]
    ELSE [balance |-> [num |-> word, exp |-> decimals], fullBalance |-> word, err |-> NoErr]

\* What follows the decode of the proof's value, per token kind: the minime
\* branch calls fullBalance.Bytes(), which dereferences fullBalance; the
\* mapbased branch only prints balance.String(), which accepts nil.
AfterDecode(tt, decodeErr) ==
    IF tt = "minime"
    THEN IF decodeErr # NoErr THEN "panic" ELSE "minimeverify"
    ELSE "verify"

\* Step 6: decode the proof's value; a decode error is logged as a warning.
DecodeValue ==
    /\ outcome = "running" /\ pc = "decode"
    /\ steps' = Append(steps, "decode")
    /\ LET err == IF ttype = "minime"
                  THEN ParseMinimeValue(sproof.value, tokenData).err
                  ELSE ValueToBalance(sproof.value, tokenData).err
           next == AfterDecode(ttype, err)
       IN /\ warned' = (err # NoErr)
          /\ IF next = "panic"
             THEN outcome' = "panic" /\ pc' = "exit" /\ failed' = "decode"
             ELSE pc' = next /\ UNCHANGED <<outcome, failed>>
    /\ UNCHANGED <<envVars, chainVars, dsVars, tokenData, balance, ttype, slot, mamount,
                   block, sproof, nreads, lastPos, lastWord, readBlocks, dsHead, firstMatch, fetches>>

\* if err := minime.VerifyProof(...); err != nil { log.Fatal(err) }
MinimeVerifyProof ==
    /\ outcome = "running" /\ pc = "minimeverify"
    /\ steps' = Append(steps, "minimeverify")
    /\ IF ErrIsFatal(IF sproof.minimeOk THEN NoErr ELSE "proof invalid")
       THEN Fatal("minimeverify")
       ELSE pc' = "verify" /\ UNCHANGED <<outcome, failed>>
    /\ UNCHANGED <<envVars, chainVars, dsVars, tokenData, balance, ttype, slot, mamount,
                   block, sproof, warned, nreads, lastPos, lastWord, readBlocks, dsHead, firstMatch, fetches>>

\* Step 7: ethstorageproof.VerifyEIP1186(sproof); the verdict is printed.
Verify ==
    /\ outcome = "running" /\ pc = "verify"
    /\ steps' = Append(steps, "verify")
    /\ outcome' = IF sproof.pv THEN "valid" ELSE "invalid"
    /\ pc' = "exit"
    /\ UNCHANGED <<envVars, chainVars, dsVars, tokenData, balance, ttype, slot, mamount,
                   block, sproof, warned, failed, nreads, lastPos, lastWord, readBlocks,
                   dsHead, firstMatch, fetches>>

(* ------------------------------------------------------------------ *)
(* Deadlines of the network calls                                       *)
(* ------------------------------------------------------------------ *)

\* ctx, cancel := context.WithTimeout(context.Background(), time.Second*10)
\* around Ethcli.StorageAt in DiscoverSlot.
StorageAtTimeout == TRUE

\* The same deadline around the block fetch and the proof fetch of
\* Mapbased.GetBlock and Mapbased.GetProof.
GetProofTimeout == TRUE

\* main fetches the block with ts.GetBlock(context.Background(), blockNum):
\* a context without deadline.
MainGetBlockTimeout == FALSE

\* GetTokenData and Balance take no context from their callers; the chain
\* client bounds them.
Erc20CallTimeout == TRUE

\* The call the run is waiting in has a deadline.
CallInFlightBounded ==
    CASE pc \in {"metadata", "balance"} -> Erc20CallTimeout
      [] pc = "discover" /\ ttype = "mapbased" /\ dpc \in {"idle", "balance"} -> Erc20CallTimeout
      [] pc = "discover" /\ ttype = "mapbased" /\ dpc = "loop" -> StorageAtTimeout
      [] pc = "block" -> MainGetBlockTimeout
      [] pc = "proof" -> GetProofTimeout
      [] OTHER -> TRUE

\* The peer never answers the call in flight.  A call with a deadline fails
\* with a transport error (an outcome of its own action); one without
\* blocks the run for good.
Stall ==
    /\ outcome = "running"
    /\ ~CallInFlightBounded
    /\ outcome' = "hung"
    /\ UNCHANGED <<envVars, chainVars, dsVars, histVars, pc, tokenData, balance, ttype,
                   slot, mamount, block, sproof, warned>>

Next ==
    \/ NewBlock
    \/ Stall
    \/ FetchMetadata
    \/ FetchBalance
    \/ NewToken
    \/ DiscoverSlotTokenData
    \/ DiscoverSlotBalance
    \/ DiscoverSlotIter
    \/ MinimeDiscoverSlot
    \/ DiscoverReturn
    \/ ResolveBlock
    \/ GetProof
    \/ DecodeValue
    \/ MinimeVerifyProof
    \/ Verify

Spec == Init /\ [][Next]_vars

TypeOK ==
    /\ pc \in {"metadata", "balance", "newtoken", "discover", "block", "proof",
               "decode", "minimeverify", "verify", "exit"}
    /\ outcome \in {"running", "fatal", "trivial", "valid", "invalid", "panic", "hung"}
    /\ head \in 1..MaxHead
    /\ i \in 0..DiscoveryIterations
    /\ nreads \in 0..DiscoveryIterations

(* ------------------------------------------------------------------ *)
(* Properties of Mapbased.DiscoverSlot                                  *)
(* ------------------------------------------------------------------ *)

\* Mapbased.DiscoverSlot has returned; ret holds what it returned.
Returned == ttype = "mapbased" /\ dpc \in {"returned", "done"}

\* The errors of the chain client that DiscoverSlot can return.
ClientErrs == {ErrTransport, "GetTokenData", "Balance"}

\* The chain did not change between DiscoverSlot's balance read and now.
ChainStable == dsHead = head

\* At the latest block, the word at position p decodes to the oracle balance.
FixtureMatches(p) ==
    WordMatches(StorageAt(GetMapSlot(Holder, p)), chainDecimals,
                chainBal \div Pow10(chainDecimals))

\* C1: whenever DiscoverSlot succeeds, the amount it returns is the balance
\* decoded from the word read at the accepted position.
C1_AmountIsDecodedBalance ==
    (Returned /\ ret.err = NoErr) =>
        /\ ret.amount # NilFloat
        /\ SameNumber(ret.amount, ValueToBalance(lastWord, dTokenData).amount)

\* C2: DiscoverSlot issues at most DiscoveryIterations storage reads, all at
\* positions 0..DiscoveryIterations-1, and when every read succeeds and no
\* word read matches it returns ErrSlotNotFound after exactly
\* DiscoveryIterations reads.
C2_BoundedSearch ==
    /\ nreads <= DiscoveryIterations
    /\ lastPos < DiscoveryIterations
    /\ nreads > 0 => lastPos >= 0
    /\ (Returned /\ ret.err \notin ClientErrs /\ firstMatch < 0) =>
           /\ ret.err = ErrSlotNotFound
           /\ nreads = DiscoveryIterations
    /\ (Returned /\ ret.err \notin ClientErrs /\ ChainStable
          /\ \A p \in 0..(DiscoveryIterations - 1) : ~FixtureMatches(p)) =>
           /\ ret.err = ErrSlotNotFound
           /\ nreads = DiscoveryIterations
    /\ (Returned /\ ret.err = ErrSlotNotFound) => nreads = DiscoveryIterations

C2_Witness ==
    /\ Returned /\ ret.err = ErrSlotNotFound /\ nreads = DiscoveryIterations
    /\ truePos >= DiscoveryIterations

\* C3: positions are read in increasing order from 0, the search stops at the
\* first match, and the position returned is the lowest matching one; nothing
\* above it is read.
C3_FirstMatchWins ==
    /\ lastPos = nreads - 1
    /\ index \in {0 - 1, firstMatch}
    /\ (ttype = "mapbased" /\ firstMatch >= 0) =>
           /\ Returned
           /\ ret.err = NoErr
           /\ ret.position = firstMatch
           /\ nreads = firstMatch + 1
    /\ (Returned /\ ret.err = NoErr) => ret.position = firstMatch /\ firstMatch >= 0
    /\ (Returned /\ ret.err = NoErr /\ ChainStable) =>
           /\ FixtureMatches(ret.position)
           /\ \A p \in 0..(ret.position - 1) : ~FixtureMatches(p)
    /\ (Returned /\ ret.err \notin ClientErrs /\ ChainStable) =>
           \A k \in 0..(DiscoveryIterations - 1) :
               (FixtureMatches(k) /\ \A p \in 0..(k - 1) : ~FixtureMatches(p)) =>
                   ret.err = NoErr /\ ret.position = k /\ nreads = k + 1

C3_Witness ==
    /\ Returned /\ ret.err = NoErr /\ ChainStable
    /\ ret.position = truePos /\ nreads = truePos + 1 /\ truePos > 0
    /\ filler \in RawAmounts /\ ~FixtureMatches(0)

\* C4: a decode failure is not fatal: the search goes on with the next
\* position, and a layout whose positions below k do not decode while k
\* matches yields k.
C4_DecodeFailureTolerated ==
    /\ (ttype = "mapbased" /\ lastWord = BadWord /\ lastPos < DiscoveryIterations - 1) =>
           dpc = "loop" /\ i = lastPos + 1 /\ ret = NoRet
    /\ (ttype = "mapbased" /\ lastWord = BadWord /\ lastPos >= DiscoveryIterations - 1) =>
           Returned /\ ret.err = ErrSlotNotFound
    /\ (Returned /\ ret.err \notin ClientErrs /\ ChainStable /\ filler = BadWord
          /\ truePos < DiscoveryIterations) =>
           ret.err = NoErr /\ ret.position = truePos /\ nreads = truePos + 1

C4_Witness ==
    /\ Returned /\ ret.err = NoErr /\ filler = BadWord
    /\ ret.position = truePos /\ truePos > 0 /\ nreads = truePos + 1

\* C5: a failed storage read ends the search at once with the read's error:
\* nothing above the failing position is read and the error is not the
\* ErrSlotNotFound sentinel.
C5_ReadErrorAborts ==
    /\ (ttype = "mapbased" /\ nreads > 0 /\ lastWord = NoWord) =>
           /\ Returned
           /\ ret.err = ErrTransport
           /\ ret.err # ErrSlotNotFound
           /\ nreads = lastPos + 1
    /\ (Returned /\ ret.err = ErrTransport) => lastWord = NoWord /\ nreads > 0

C5_Witness ==
    /\ Returned /\ ret.err = ErrTransport /\ lastPos = 2 /\ nreads = 3

(* ------------------------------------------------------------------ *)
(* Properties of the orchestrator                                       *)
(* ------------------------------------------------------------------ *)

\* The steps of main in the order of the source.
Pipeline == <<"metadata", "balance", "newtoken", "discover", "block", "proof",
              "decode", "minimeverify", "verify">>

StepIndex(name) == CHOOSE n \in 1..Len(Pipeline) : Pipeline[n] = name

\* The step was started in this run.
Ran(name) == \E n \in 1..Len(steps) : steps[n] = name

\* The step at which a fatal exit named in failed happened.
FailedStep == IF failed = "config" THEN "newtoken" ELSE failed

\* C6: steps 1-5 are fatal on failure: no step runs after a failed one, the
\* steps run in order, a proof is requested only with a slot and a block
\* resolved, and verification is attempted only with a proof retrieved.
C6_FatalStepsAbort ==
    /\ \A m, n \in 1..Len(steps) : m < n => StepIndex(steps[m]) < StepIndex(steps[n])
    /\ failed # "none" =>
           /\ outcome \in {"fatal", "panic"}
           /\ pc = "exit"
           /\ steps[Len(steps)] = FailedStep
    /\ outcome = "fatal" <=> (failed # "none" /\ failed # "decode")
    /\ Ran("balance") => tokenData >= 1
    /\ Ran("discover") => balance # NilFloat
    /\ Ran("block") => Ran("discover") /\ ret.err = NoErr /\ slot = ret.position /\ slot >= 0
    /\ Ran("proof") => Ran("block") /\ slot >= 0 /\ block >= 1 /\ block <= head
    /\ Ran("decode") => Ran("proof") /\ sproof # NoProof
    /\ Ran("verify") => Ran("decode") /\ sproof # NoProof
    /\ sproof # NoProof => sproof.block = block /\ sproof.key = GetMapSlot(Holder, slot)

C6_Witness ==
    /\ outcome = "fatal" /\ failed = "block" /\ slot >= 0
    /\ steps = <<"metadata", "balance", "newtoken", "discover", "block">>
    /\ sproof = NoProof

\* C7: when the balance fetched is zero the run ends as the reported trivial
\* success and neither discovery, block resolution nor proof retrieval is
\* ever started.
C7_ZeroBalanceShortCircuit ==
    (balance # NilFloat /\ balance.num = 0) =>
        /\ outcome = "trivial" /\ pc = "exit" /\ failed = "none"
        /\ ~Ran("discover") /\ ~Ran("block") /\ ~Ran("proof")
        /\ dpc = "idle" /\ nreads = 0 /\ block = 0 /\ sproof = NoProof

C7_Witness ==
    /\ outcome = "trivial" /\ balance # NilFloat /\ balance.num = 0
    /\ steps = <<"metadata", "balance">>

\* C8: for every token kind, a run whose step-6 decode fails still reaches
\* the cryptographic verification and reports a valid proof as valid.
C8_DecodeFailureKeepsVerification ==
    (warned /\ pc = "exit") =>
        /\ Ran("verify")
        /\ sproof.pv => outcome = "valid"

\* C9: for every token kind, once verification of a retrieved proof is
\* attempted the run ends with the verdict valid or invalid, never through
\* the fatal exit.
C9_VerificationNeverFatal ==
    (pc = "exit" /\ (Ran("minimeverify") \/ Ran("verify"))) =>
        outcome \in {"valid", "invalid"}

\* C10: all chain reads of a run (balance reads, storage reads of the
\* discovery, the proof request) observe the same block.
C10_SameBlockForAllReads == Cardinality(readBlocks) <= 1

\* C11: decimals and the balance are each fetched from the chain once per
\* run, and the balance main checked and reported is the oracle of the
\* discovery.
C11_FetchedOnce ==
    /\ fetches.meta <= 1
    /\ fetches.bal <= 1
    /\ (ttype = "mapbased" /\ dsHead > 0) => ubalance = Uint64(balance)

\* C12: a run given an unsupported token kind ends in the fatal
\* configuration error, whatever the chain answers: it never ends as a
\* success and never reports another error first.
C12_UnsupportedKindIsConfigError ==
    (TokenType(contractType) = "unsupported" /\ outcome # "running") =>
        outcome = "fatal" /\ failed = "config"

\* C13: every network call of a run has a deadline, so no run blocks for
\* good on a peer that never answers.
C13_EveryCallBounded == outcome # "hung"

\* C14: DiscoverSlot accepts a position if and only if the raw (unscaled)
\* word read there equals the raw oracle balance; two different raw words
\* never both match the same oracle balance.
C14_RawComparison ==
    /\ (Returned /\ ret.err = NoErr /\ ChainStable) => lastWord = chainBal
    /\ (ttype = "mapbased" /\ dpc = "loop" /\ nreads > 0 /\ lastWord >= 0 /\ ChainStable) =>
           lastWord # chainBal

\* C15: the zero-balance return is taken only for a balance of exactly
\* zero: every nonzero balance, also one below one whole token, goes on to
\* slot resolution.
C15_ShortCircuitOnlyOnZero ==
    outcome = "trivial" => balance.num = 0

\* C16: the proof is requested for the key derived from the holder and the
\* discovered position, at the block resolved in step 4: the -height given
\* when it is positive, else the latest block at the time of resolution.
\* The resolved block does not change afterwards.
C16_ProofAtResolvedBlock ==
    /\ [](sproof # NoProof =>
            /\ sproof.block = block
            /\ sproof.key = GetMapSlot(Holder, slot)
            /\ slot = ret.position /\ ret.err = NoErr)
    /\ [][(pc = "block" /\ pc' = "proof") =>
            block' = (IF height > 0 THEN height ELSE head)]_vars
    /\ [][block # 0 => block' = block]_vars

C16_Witness ==
    /\ sproof # NoProof /\ ttype = "mapbased"
    /\ height = 0 /\ sproof.block < head /\ sproof.key = GetMapSlot(Holder, truePos)

\* C17: whenever DiscoverSlot returns an error it returns position -1 and a
\* nil amount; a position in 0..DiscoveryIterations-1 is returned only with
\* a nil error.
C17_ErrorCarriesNoResult ==
    /\ (Returned /\ ret.err # NoErr) =>
           ret.position = 0 - 1 /\ ret.amount = NilFloat
    /\ (Returned /\ ret.position \in 0..(DiscoveryIterations - 1)) => ret.err = NoErr
    /\ (Returned /\ ret.err = NoErr) =>
           ret.position \in 0..(DiscoveryIterations - 1) /\ ret.amount # NilFloat

C17_Witness ==
    /\ Returned /\ ret.err = ErrSlotNotFound /\ filler = BadWord
    /\ ret.position = 0 - 1 /\ ret.amount = NilFloat

====
